---- MODULE Spec2Model ----
(***************************************************************************)
(* Model of the portfolio REST backend (src/main.py): five managed         *)
(* collections plus the unmanaged analytics collection of a document       *)
(* store, the pydantic entity models, and the eight handlers of            *)
(* api_router.                                                             *)
(*                                                                         *)
(* A stored value is a record [t |-> <type tag>, v |-> <integer>]: the tag *)
(* is the BSON / Python type ("ObjectId", "str", "int", "bool", "list",    *)
(* "date", "null") and v numbers the value inside its type (a date is a    *)
(* day number, the empty string is string 0).  A document is a function    *)
(* from the names of the fields it carries to values; a field the          *)
(* document does not carry is absent from its domain.                      *)
(***************************************************************************)
EXTENDS Integers, Sequences, FiniteSets, TLC

\* ------------------------------------------------------------------ bounds
\* Store identifiers the driver may generate (caps the number of inserts).
MaxOid == 2
\* Requests of the two-step handlers that may be in flight together.
MaxInflight == 1
\* Documents the read-only collections hold together.
MaxDocs == 3

\* --------------------------------------------------------------- constants
\* timedelta(days=7) of get_analytics_summary.
RecentDays == 7
\* Default of the `order` field of the entity models.
DefaultOrder == 0
\* HTTP status codes the handlers use.
StatusOK == 200
StatusNotFound == 404
StatusServerError == 500

\* ------------------------------------------------------------------ values
Val(t, v) == [t |-> t, v |-> v]
Null == Val("null", 0)
StrV(n) == Val("str", n)
EmptyStr == StrV(0)
IntV(n) == Val("int", n)
BoolV(b) == Val("bool", IF b THEN 1 ELSE 0)
DateV(d) == Val("date", d)
ListV(n) == Val("list", n)
Oid(n) == Val("ObjectId", n)
\* ContactStatus.NEW = "new" is string number 1 of the status enumeration.
StatusNew == Val("str", 1)

\* ---------------------------------------------------------- entity models
\* The fields a model declares that have no default (pydantic: required).
Required(e) ==
    CASE e = "Experience" ->
           {"_id", "position", "company", "location", "period", "description", "achievements"}
      [] e = "Accomplishment" ->
           {"_id", "title", "description", "impact", "technologies"}
      [] e = "ContactForm" -> {"_id", "name", "email", "message"}
      [] e = "Profile" ->
           {"_id", "name", "title", "description", "location", "email", "phone"}
      [] e = "Testimonial" -> {"_id", "name", "title", "testimonial"}

\* The fields a model declares with a default, and that default.
Defaults(e) ==
    CASE e = "Experience" ->
           [order |-> IntV(DefaultOrder), isActive |-> BoolV(TRUE),
            createdAt |-> Null, updatedAt |-> Null]
      [] e = "Accomplishment" ->
           [order |-> IntV(DefaultOrder), isActive |-> BoolV(TRUE),
            createdAt |-> Null, updatedAt |-> Null]
      [] e = "ContactForm" ->
           [subject |-> EmptyStr, status |-> StatusNew,
            createdAt |-> Null, updatedAt |-> Null]
      [] e = "Profile" -> [isActive |-> BoolV(TRUE), updatedAt |-> Null]
      [] e = "Testimonial" ->
           [company |-> EmptyStr, relationship |-> EmptyStr, date |-> EmptyStr,
            order |-> IntV(DefaultOrder), isActive |-> BoolV(TRUE),
            createdAt |-> Null, updatedAt |-> Null]

ModelFields(e) == Required(e) \cup DOMAIN Defaults(e)

\* The declared type of a field: Optional[datetime] for the two stamps,
\* List[str] for the two lists, int / bool for order / isActive, str else.
FieldType(f) ==
    CASE f \in {"createdAt", "updatedAt"} -> "date"
      [] f \in {"achievements", "technologies"} -> "list"
      [] f = "order" -> "int"
      [] f = "isActive" -> "bool"
      [] OTHER -> "str"

\* Optional[...] fields accept None.
Nullable(f) == f \in {"createdAt", "updatedAt"}

\* def convert_objectid(document): document["_id"] = str(document["_id"])
StrOf(x) == IF x.t = "str" THEN x ELSE StrV(x.v)
convert_objectid(document) ==
    IF "_id" \in DOMAIN document
    THEN [document EXCEPT !["_id"] = StrOf(document["_id"])]
    ELSE document

\* Entity(**document) succeeds: every required field is there and every
\* declared field the document carries has the declared type.
Validates(e, document) ==
    /\ Required(e) \subseteq DOMAIN document
    /\ \A f \in ModelFields(e) \cap DOMAIN document :
          \/ document[f].t = FieldType(f)
          \/ Nullable(f) /\ document[f] = Null

\* The pydantic object built by Entity(**document): the declared fields
\* only (an undeclared key is ignored), a default where the document has
\* none, the alias _id read into the field id.
FieldName(f) == IF f = "_id" THEN "id" ELSE f
AliasOf(n) == IF n = "id" THEN "_id" ELSE n
Entity(e, document) ==
    [n \in {FieldName(f) : f \in ModelFields(e)} |->
        IF AliasOf(n) \in DOMAIN document
        THEN document[AliasOf(n)]
        ELSE Defaults(e)[n]]

\* datetime.utcnow(), in days: a run is short against the day, so every call
\* of a run reads the same day.
now == 0

\* ----------------------------------------------------------------- state
VARIABLES
    experiences,      \* db.experiences
    accomplishments,  \* db.accomplishments
    testimonials,     \* db.testimonials
    profile,          \* db.profile
    contacts,         \* db.contacts
    analytics,        \* db.analytics
    nextOid,          \* next ObjectId the driver generates
    inflight,         \* requests suspended at an await between two store calls
    resp              \* the response last sent, with what was logged for it

vars == <<experiences, accomplishments, testimonials, profile, contacts,
          analytics, nextOid, inflight, resp>>

readOnly == <<experiences, accomplishments, testimonials, profile>>

\* ------------------------------------------------------- the document store
\* Errors a store call may raise (connection loss, selection timeout).
StoreErrors == {"AutoReconnect", "ServerSelectionTimeoutError"}

\* collection.find({"isActive": True}): the field is there and is true.
FindActive(coll) ==
    {d \in coll : "isActive" \in DOMAIN d /\ d["isActive"] = BoolV(TRUE)}

\* The store's comparison order of values of different types: null (which a
\* missing field counts as) sorts before every number, numbers before strings.
TypeRank(x) ==
    CASE x.t = "null" -> 1
      [] x.t = "int" -> 2
      [] OTHER -> 3
SortKey(d, f) == IF f \in DOMAIN d THEN d[f] ELSE Null
BsonLE(a, b) ==
    \/ TypeRank(a) < TypeRank(b)
    \/ TypeRank(a) = TypeRank(b) /\ a.v <= b.v

\* cursor.sort(f, 1): every order of the matched documents that ascends in
\* the sort key (the store leaves the order of equal keys open).
Sorted(S, f) ==
    {s \in [1..Cardinality(S) -> S] :
        /\ \A i, j \in 1..Cardinality(S) : i # j => s[i] # s[j]
        /\ \A i, j \in 1..Cardinality(S) :
              i < j => BsonLE(SortKey(s[i], f), SortKey(s[j], f))}

\* collection.find_one({"_id": id})
FindById(coll, id) == {d \in coll : d["_id"] = id}

\* Mutant: a comparison that also reads the time out of a string timestamp.
RecentMatch_AnyType(d, since) ==
    /\ "timestamp" \in DOMAIN d
    /\ d["timestamp"].v >= since

\* collection.count_documents({"timestamp": {"$gte": since}}): the store
\* compares within one type only, so the date bound matches date values.
RecentMatch(d, since) ==
    /\ "timestamp" \in DOMAIN d
    /\ d["timestamp"].t = "date"
    /\ d["timestamp"].v >= since

\* ------------------------------------------------- requests and responses
EmptyDoc == [f \in {} |-> Null]
Size(S) == Cardinality(S)

\* A request in flight: its handler, its body, the identifier insert_one
\* returned, the number of documents its insert added, the first count of
\* the summary (total_visits) and the size of the analytics collection when
\* that count ran.
Request(h, data, inserted, added, total, seen) ==
    [handler |-> h, data |-> data, inserted |-> inserted, added |-> added,
     total |-> total, seen |-> seen]
Idle == Request("idle", EmptyDoc, Null, 0, 0, 0)

\* logging.error(f"<msg>: {str(e)}")
LogError(msg, e) == [msg |-> msg, cause |-> e]
NoLog == LogError("", "")

\* A response: status code and detail of an HTTPException, or the body
\* (items: the entities returned; flag: track's status; total / recent / at:
\* the summary's counts and timestamp), the request it answers, and the log
\* record written while serving it.
Response(h, status, detail, items, flag, total, recent, at, req, logged) ==
    [handler |-> h, status |-> status, detail |-> detail, items |-> items,
     flag |-> flag, total |-> total, recent |-> recent, at |-> at,
     req |-> req, logged |-> logged]

NoStamp == 0 - 1
NoResponse ==
    Response("none", 0, "", <<>>, "", 0, 0, NoStamp, Idle, NoLog)

\* raise HTTPException(status_code=..., detail=...) after logging.error
HTTPException(h, status, detail, req, logged) ==
    Response(h, status, detail, <<>>, "", 0, 0, NoStamp, req, logged)

\* ------------------------------------------------- what the store may hold
\* A document of entity e carrying every declared field, with order o and
\* visibility a.
TypicalValue(f) ==
    CASE FieldType(f) = "date" -> DateV(0)
      [] FieldType(f) = "list" -> ListV(1)
      [] OTHER -> StrV(1)
FullDoc(e, id, o, a) ==
    [f \in ModelFields(e) |->
        CASE f = "_id" -> Oid(id)
          [] f = "order" -> IntV(o)
          [] f = "isActive" -> BoolV(a)
          [] OTHER -> TypicalValue(f)]
Without(d, f) == [g \in DOMAIN d \ {f} |-> d[g]]

\* The read-only collections are filled by hand, outside this API: documents
\* with and without `order`, with a negative order, a hidden one, one without
\* `isActive` and one lacking a required field; a profile may also carry the
\* createdAt stamp the other entities have.
ListingPool(e) ==
    { FullDoc(e, 11, 1, TRUE),
      FullDoc(e, 12, 2, FALSE),
      Without(FullDoc(e, 13, 0, TRUE), "order"),
      FullDoc(e, 14, 0 - 1, TRUE),
      FullDoc(e, 15, 1, TRUE),
      Without(FullDoc(e, 16, 3, TRUE), "isActive"),
      Without(FullDoc(e, 17, 0, TRUE),
              IF e = "Testimonial" THEN "testimonial" ELSE "description") }

ProfilePool ==
    { FullDoc("Profile", 21, 0, TRUE),
      FullDoc("Profile", 22, 0, FALSE),
      Without(FullDoc("Profile", 23, 0, TRUE), "phone"),
      ("createdAt" :> DateV(0)) @@ FullDoc("Profile", 24, 0, TRUE) }

\* Analytics documents written to the store directly, with a BSON date: of
\* today, and ten days old.
AnalyticsPool ==
    { [_id |-> Oid(31), timestamp |-> DateV(0)],
      [_id |-> Oid(32), timestamp |-> DateV(0 - 10)] }

\* ------------------------------------------------------------------- Init
InitDynamic ==
    /\ contacts = {}
    /\ nextOid = 1
    /\ inflight = {}
    /\ resp = NoResponse

\* The subsets of S of at most k elements.
RECURSIVE UpTo(_, _)
UpTo(S, k) ==
    IF k = 0 THEN {{}}
    ELSE LET P == UpTo(S, k - 1)
         IN  P \cup {T \cup {x} : T \in P, x \in S}

In(coll, docs) == [coll |-> coll, doc |-> docs]
SeedPool ==
    {In("experiences", d) : d \in ListingPool("Experience")}
        \cup {In("accomplishments", d) : d \in ListingPool("Accomplishment")}
        \cup {In("testimonials", d) : d \in ListingPool("Testimonial")}
        \cup {In("profile", d) : d \in ProfilePool}
Of(seeds, coll) == {s.doc : s \in {x \in seeds : x.coll = coll}}

\* The read-only collections hold, together, at most MaxDocs documents of
\* their pools.
InitRead ==
    /\ \E seeds \in UpTo(SeedPool, MaxDocs) :
          /\ experiences = Of(seeds, "experiences")
          /\ accomplishments = Of(seeds, "accomplishments")
          /\ testimonials = Of(seeds, "testimonials")
          /\ profile = Of(seeds, "profile")
    /\ analytics = {}
    /\ InitDynamic

\* The read-only collections hold one visible document each;
\* the analytics collection holds any documents of its pool.
Init ==
    /\ experiences = {FullDoc("Experience", 11, 1, TRUE)}
    /\ accomplishments = {FullDoc("Accomplishment", 11, 1, TRUE)}
    /\ testimonials = {FullDoc("Testimonial", 11, 1, TRUE)}
    /\ profile = {FullDoc("Profile", 21, 0, TRUE)}
    /\ analytics \in SUBSET AnalyticsPool
    /\ InitDynamic

\* ----------------------------------------------------------------- handlers
\* @api_router.get("/")
root ==
    /\ resp' = Response("root", StatusOK, "", <<>>, "", 0, 0, now, Idle, NoLog)
    /\ UNCHANGED <<readOnly, contacts, analytics, nextOid, inflight>>

\* What the except clause of a listing handler tells the caller of error e.
ListingError(h, msg, detail, e) ==
    HTTPException(h, StatusServerError, detail, Idle, LogError(msg, e))

\* The documents a listing handler reads: the visible ones, sorted by order.
ListingCursor(coll) == Sorted(FindActive(coll), "order")

\* The body shared by get_experiences, get_accomplishments and
\* get_testimonials: find the visible documents, sort by order, map each;
\* any exception is logged and becomes a 500 with the handler's message.
Listing(h, e, coll, msg, detail) ==
    /\ \/ \E err \in StoreErrors : resp' = ListingError(h, msg, detail, err)
       \/ \E cursor \in ListingCursor(coll) :
             LET documents == [i \in DOMAIN cursor |-> convert_objectid(cursor[i])]
             IN  IF \A i \in DOMAIN documents : Validates(e, documents[i])
                 THEN resp' = Response(h, StatusOK, "",
                                 [i \in DOMAIN documents |-> Entity(e, documents[i])],
                                 "", 0, 0, NoStamp, Idle, NoLog)
                 ELSE resp' = ListingError(h, msg, detail, "ValidationError")
    /\ UNCHANGED <<readOnly, contacts, analytics, nextOid, inflight>>

get_experiences ==
    Listing("get_experiences", "Experience", experiences,
            "Error fetching experiences", "Failed to fetch experiences")

get_accomplishments ==
    Listing("get_accomplishments", "Accomplishment", accomplishments,
            "Error fetching accomplishments", "Failed to fetch accomplishments")

get_testimonials ==
    Listing("get_testimonials", "Testimonial", testimonials,
            "Error fetching testimonials", "Failed to fetch testimonials")

\* Mutant: without the `except HTTPException: raise` clause the 404 falls into
\* `except Exception` and leaves as a 500.
ProfileNotFound_Swallowed ==
    HTTPException("get_profile", StatusServerError, "Failed to fetch profile",
                  Idle, LogError("Error fetching profile", "HTTPException"))

\* raise HTTPException(status_code=404, ...) inside the try block, seen by
\* `except HTTPException: raise`: it leaves the handler unchanged.
ProfileNotFound ==
    HTTPException("get_profile", StatusNotFound, "Profile not found", Idle, NoLog)

\* What the last except clause of get_profile tells the caller of error e.
ProfileError(e) ==
    HTTPException("get_profile", StatusServerError, "Failed to fetch profile",
                  Idle, LogError("Error fetching profile", e))

\* @api_router.get("/profile")
get_profile ==
    /\ \/ \E err \in StoreErrors : resp' = ProfileError(err)
       \/ /\ FindActive(profile) = {}
          /\ resp' = ProfileNotFound
       \/ \E found \in FindActive(profile) :
             LET document == convert_objectid(found)
             IN  IF Validates("Profile", document)
                 THEN resp' = Response("get_profile", StatusOK, "",
                                 <<Entity("Profile", document)>>,
                                 "", 0, 0, NoStamp, Idle, NoLog)
                 ELSE resp' = ProfileError("ValidationError")
    /\ UNCHANGED <<readOnly, contacts, analytics, nextOid, inflight>>

\* The JSON bodies POST /contact accepts: subject left out, given, or null
\* (subject: Optional[str] = "").
ContactRequests ==
    { [name |-> StrV(1), email |-> StrV(2), message |-> StrV(3)],
      [name |-> StrV(1), email |-> StrV(2), message |-> StrV(3), subject |-> StrV(4)],
      [name |-> StrV(1), email |-> StrV(2), message |-> StrV(3), subject |-> Null] }

\* class ContactFormCreate, and contact.dict()
ContactFormCreate(body) ==
    [f \in {"name", "email", "subject", "message"} |->
        IF f \in DOMAIN body THEN body[f] ELSE EmptyStr]

\* Mutant: the handler stamps another member of ContactStatus ("read").
ContactData_StatusRead(body) ==
    [createdAt |-> DateV(now), updatedAt |-> DateV(now), status |-> StrV(2)]
        @@ ContactFormCreate(body)

\* contact_data as submit_contact_form stamps it before the insert.
ContactData(body) ==
    [createdAt |-> DateV(now), updatedAt |-> DateV(now), status |-> StatusNew]
        @@ ContactFormCreate(body)

\* insert_one: a document without _id gets a fresh ObjectId from the driver.
WithId(document, oid) ==
    IF "_id" \in DOMAIN document THEN document ELSE ("_id" :> oid) @@ document

\* Mutant: the except clause passes str(e) on as the detail.
SubmitError_Leaks(req, e) ==
    HTTPException("submit_contact_form", StatusServerError, e, req,
                  LogError("Error submitting contact form", e))

\* What the except clause of submit_contact_form tells the caller of error e.
SubmitError(req, e) ==
    HTTPException("submit_contact_form", StatusServerError,
                  "Failed to submit contact form", req,
                  LogError("Error submitting contact form", e))

\* Mutant: an upsert keyed by email in place of insert_one replaces the
\* contact the same sender stored before.
ContactsInsert_Upsert(document) ==
    {d \in contacts : d["email"] # document["email"]} \cup {document}

\* The contacts collection after insert_one(document).
ContactsInsert(document) == contacts \cup {document}

\* submit_contact_form up to `await contacts_collection.insert_one(...)`.
SubmitInsert ==
    /\ Size(inflight) < MaxInflight
    /\ \E body \in ContactRequests :
          \/ \E err \in StoreErrors :
                /\ resp' = SubmitError(
                              Request("submit_contact_form", body, Null, 0, 0, 0), err)
                /\ UNCHANGED <<contacts, nextOid, inflight>>
          \/ /\ nextOid <= MaxOid
             /\ contacts' = ContactsInsert(WithId(ContactData(body), Oid(nextOid)))
             /\ nextOid' = nextOid + 1
             /\ inflight' = inflight \cup
                   {Request("submit_contact_form", body, Oid(nextOid),
                            Size(contacts') - Size(contacts), 0, 0)}
             /\ UNCHANGED resp
    /\ UNCHANGED <<readOnly, analytics>>

\* submit_contact_form from `await contacts_collection.find_one(...)` on.
SubmitRead(req) ==
    /\ req.handler = "submit_contact_form"
    /\ inflight' = inflight \ {req}
    /\ \/ \E err \in StoreErrors : resp' = SubmitError(req, err)
       \/ /\ FindById(contacts, req.inserted) = {}
          /\ resp' = SubmitError(req, "TypeError")
       \/ \E found \in FindById(contacts, req.inserted) :
             LET created_contact == convert_objectid(found)
             IN  IF Validates("ContactForm", created_contact)
                 THEN resp' = Response("submit_contact_form", StatusOK, "",
                                 <<Entity("ContactForm", created_contact)>>,
                                 "", 0, 0, NoStamp, req, NoLog)
                 ELSE resp' = SubmitError(req, "ValidationError")
    /\ UNCHANGED <<readOnly, contacts, analytics, nextOid>>

\* The JSON objects POST /analytics may carry: JSON has no date type, so a
\* timestamp arrives as a string (here: of today); a client may also send
\* its own createdAt or _id.
AnalyticsPayloads ==
    { [timestamp |-> StrV(now), createdAt |-> StrV(99)],
      [_id |-> StrV(7)] }

\* analytics_data["createdAt"] = datetime.utcnow()
Stamped(analytics_data) == ("createdAt" :> DateV(now)) @@ analytics_data

\* The body track_analytics returns: {"status": flag}, never an HTTP error.
TrackResponse(flag, req, logged) ==
    Response("track_analytics", StatusOK, "", <<>>, flag, 0, 0, NoStamp, req, logged)

\* @api_router.post("/analytics")
track_analytics ==
    /\ \E analytics_data \in AnalyticsPayloads :
          LET document == WithId(Stamped(analytics_data), Oid(nextOid))
              req(added) == Request("track_analytics", analytics_data,
                                    document["_id"], added, 0, 0)
          IN  \/ \E err \in StoreErrors :
                    /\ resp' = TrackResponse("error", req(0),
                                  LogError("Error tracking analytics", err))
                    /\ UNCHANGED <<analytics, nextOid>>
              \/ /\ FindById(analytics, document["_id"]) # {}
                 /\ resp' = TrackResponse("error", req(0),
                               LogError("Error tracking analytics", "DuplicateKeyError"))
                 /\ UNCHANGED <<analytics, nextOid>>
              \/ /\ FindById(analytics, document["_id"]) = {}
                 /\ "_id" \in DOMAIN analytics_data \/ nextOid <= MaxOid
                 /\ analytics' = analytics \cup {document}
                 /\ nextOid' = IF "_id" \in DOMAIN analytics_data
                               THEN nextOid ELSE nextOid + 1
                 /\ resp' = TrackResponse("success",
                               req(Size(analytics') - Size(analytics)), NoLog)
    /\ UNCHANGED <<readOnly, contacts, inflight>>

\* except Exception: return {"total_visits": 0, "recent_visits": 0}
SummaryError(req, e) ==
    Response("get_analytics_summary", StatusOK, "", <<>>, "", 0, 0, NoStamp, req,
             LogError("Error fetching analytics", e))

\* db.analytics.count_documents({})
CountAll == Size(analytics)

\* get_analytics_summary up to `await db.analytics.count_documents({})`.
SummaryTotal ==
    /\ Size(inflight) < MaxInflight
    /\ \/ \E err \in StoreErrors :
             /\ resp' = SummaryError(
                           Request("get_analytics_summary", EmptyDoc, Null, 0, 0,
                                   Size(analytics)), err)
             /\ inflight' = inflight
       \/ /\ inflight' = inflight \cup
                {Request("get_analytics_summary", EmptyDoc, Null, 0,
                         CountAll, Size(analytics))}
          /\ inflight' # inflight
          /\ UNCHANGED resp
    /\ UNCHANGED <<readOnly, contacts, analytics, nextOid>>

\* count_documents({"timestamp": {"$gte": datetime.utcnow() - timedelta(days=7)}})
RecentVisits == Size({d \in analytics : RecentMatch(d, now - RecentDays)})

\* get_analytics_summary from the second count_documents on.
SummaryRecent(req) ==
    /\ req.handler = "get_analytics_summary"
    /\ inflight' = inflight \ {req}
    /\ \/ \E err \in StoreErrors : resp' = SummaryError(req, err)
       \/ resp' = Response("get_analytics_summary", StatusOK, "", <<>>, "",
                           req.total, RecentVisits, now, req, NoLog)
    /\ UNCHANGED <<readOnly, contacts, analytics, nextOid>>

\* ------------------------------------------------------- specifications
Next ==
    \/ root
    \/ get_experiences
    \/ get_accomplishments
    \/ get_profile
    \/ get_testimonials
    \/ SubmitInsert
    \/ \E req \in inflight : SubmitRead(req)
    \/ track_analytics
    \/ SummaryTotal
    \/ \E req \in inflight : SummaryRecent(req)

\* All eight handlers, any interleaving of their store calls.
Spec == Init /\ [][Next]_vars

\* The read handlers over every seeding of the read-only collections.
NextRead ==
    \/ root
    \/ get_experiences
    \/ get_accomplishments
    \/ get_profile
    \/ get_testimonials

SpecRead == InitRead /\ [][NextRead]_vars

\* ------------------------------------------------------------------ claims
ListingHandlers == {"get_experiences", "get_accomplishments", "get_testimonials"}

\* The collection a read handler serves.
CollectionOf(h) ==
    CASE h = "get_experiences" -> experiences
      [] h = "get_accomplishments" -> accomplishments
      [] h = "get_testimonials" -> testimonials
      [] h = "get_profile" -> profile
      [] h = "submit_contact_form" -> contacts

\* The store call of the answered request went through.
StoreOK == resp.logged.cause \notin StoreErrors

\* C1: a successful listing response holds no hidden document and ascends in
\* the returned order values (a document stored without order is returned
\* with 0); a collection without a visible document gives an empty list,
\* HTTP success, when the store can be read.
C1_ListingActiveSorted ==
    resp.handler \in ListingHandlers =>
        /\ resp.status = StatusOK =>
              /\ \A i \in DOMAIN resp.items : resp.items[i].isActive # BoolV(FALSE)
              /\ \A i, j \in DOMAIN resp.items :
                    i < j => resp.items[i].order.v <= resp.items[j].order.v
        /\ (FindActive(CollectionOf(resp.handler)) = {} /\ StoreOK) =>
              (resp.status = StatusOK /\ resp.items = <<>>)

C3_SubmitCreatesOne ==
    (resp.handler = "submit_contact_form" /\ resp.status = StatusOK) =>
        /\ Len(resp.items) = 1
        /\ resp.req.added = 1
        /\ resp.items[1].status = StatusNew
        /\ "subject" \notin DOMAIN resp.req.data => resp.items[1].subject = EmptyStr
        /\ \A f \in {"name", "email", "message"} : resp.items[1][f] = resp.req.data[f]
        /\ resp.items[1].id.t = "str"
        /\ resp.items[1].id # EmptyStr
        /\ Size({d \in contacts : StrOf(d["_id"]) = resp.items[1].id}) = 1
        /\ \A d \in contacts :
              StrOf(d["_id"]) = resp.items[1].id =>
                  \A f \in DOMAIN d \ {"_id"} : resp.items[1][f] = d[f]

\* C3 witness: a request without subject was answered with success while
\* another contact was already stored.
C3_Witness ==
    /\ resp.handler = "submit_contact_form"
    /\ resp.status = StatusOK
    /\ "subject" \notin DOMAIN resp.req.data
    /\ Size(contacts) > 1

\* C4: on a store that works, track_analytics answers any payload with
\* {status: "success"} and has added exactly one document, stamped by the
\* server; when the store call fails it answers {status: "error"} in a
\* normal response.
C4_TrackAnyPayload ==
    resp.handler = "track_analytics" =>
        /\ resp.status = StatusOK
        /\ StoreOK =>
              /\ resp.flag = "success"
              /\ resp.req.added = 1
              /\ \E d \in analytics :
                    d["_id"] = resp.req.inserted /\ d["createdAt"] = DateV(now)
        /\ ~StoreOK => resp.flag = "error"

\* The timestamp of d names a moment of the last seven days, whether it is
\* stored as a date or as the string a JSON client sent.
WithinLastDays(d) ==
    /\ "timestamp" \in DOMAIN d
    /\ d["timestamp"].t \in {"date", "str"}
    /\ d["timestamp"].v >= now - RecentDays
    /\ d["timestamp"].v <= now

\* C5: a summary served while the analytics collection stands still returns
\* the number of its documents and the number of those whose timestamp lies
\* within the last 7 days; a summary whose store call failed returns 0 and 0.
C5_SummaryCounts ==
    resp.handler = "get_analytics_summary" =>
        /\ (StoreOK /\ Size(analytics) = resp.req.seen) =>
              /\ resp.total = Size(analytics)
              /\ resp.recent = Size({d \in analytics : WithinLastDays(d)})
        /\ ~StoreOK => (resp.total = 0 /\ resp.recent = 0)

\* The detail each handler's except clause passes to HTTPException.
FixedDetail(h) ==
    CASE h = "get_experiences" -> "Failed to fetch experiences"
      [] h = "get_accomplishments" -> "Failed to fetch accomplishments"
      [] h = "get_testimonials" -> "Failed to fetch testimonials"
      [] h = "get_profile" -> "Failed to fetch profile"
      [] h = "submit_contact_form" -> "Failed to submit contact form"

\* C6: when a store call of a listing, profile or contact request fails, the
\* answer is HTTP 500 with the handler's fixed detail and no body, whatever
\* the error was; the error itself is in the log record only.
C6_GenericServerError ==
    (resp.handler \in ListingHandlers \cup {"get_profile", "submit_contact_form"}
        /\ ~StoreOK) =>
        /\ resp.status = StatusServerError
        /\ resp.detail = FixedDetail(resp.handler)
        /\ resp.items = <<>>
        /\ resp.logged.msg # ""

\* C6 witness: the re-read of a stored contact failed in the store.
C6_Witness ==
    /\ resp.handler = "submit_contact_form"
    /\ resp.logged.cause = "ServerSelectionTimeoutError"
    /\ resp.req.inserted # Null

\* C7: no step removes or changes a stored contact; a step that changes the
\* contacts collection is the insert of submit_contact_form and adds one
\* document, of status "new".
C7_ContactsOnlyGrow ==
    [][ /\ contacts \subseteq contacts'
        /\ contacts' # contacts =>
              /\ Size(contacts') = Size(contacts) + 1
              /\ \A d \in contacts' \ contacts :
                    /\ d["status"] = StatusNew
                    /\ \E req \in inflight' \ inflight :
                          /\ req.handler = "submit_contact_form"
                          /\ req.inserted = d["_id"]
      ]_vars

\* C7 witness: two contacts are stored, and an analytics request was served
\* after them.
C7_Witness ==
    /\ Size(contacts) > 1
    /\ resp.handler = "track_analytics"
    /\ resp.flag = "success"

\* response_model=...: the entity is written out under its aliases.
Serialize(entity) ==
    [f \in {AliasOf(n) : n \in DOMAIN entity} |-> entity[FieldName(f)]]

\* C8: every entity a handler returns carries, once serialized, every field
\* of the stored document it was mapped from with the stored value, the
\* identifier as a string.
C8_RoundTrip ==
    (resp.handler \in ListingHandlers \cup {"get_profile", "submit_contact_form"}
        /\ resp.status = StatusOK) =>
        \A i \in DOMAIN resp.items :
            \A d \in CollectionOf(resp.handler) :
                StrOf(d["_id"]) = resp.items[i].id =>
                    \A f \in DOMAIN d :
                        /\ f \in DOMAIN Serialize(resp.items[i])
                        /\ Serialize(resp.items[i])[f] = convert_objectid(d)[f]

\* C9: when submit_contact_form answers 500, the document of that request
\* is not in the contacts collection.
C9_FailedSubmitLeavesNothing ==
    (resp.handler = "submit_contact_form" /\ resp.status = StatusServerError) =>
        FindById(contacts, resp.req.inserted) = {}

\* C10: every summary returns recent_visits <= total_visits, also when
\* documents are tracked between its two counts.
C10_RecentAtMostTotal ==
    resp.handler = "get_analytics_summary" => resp.recent <= resp.total

\* C10 witness: a summary counted every stored document as recent, and a
\* document with a timestamp of today was tracked between its two counts.
C10_Witness ==
    /\ resp.handler = "get_analytics_summary"
    /\ StoreOK
    /\ resp.total > 0
    /\ resp.recent = resp.total
    /\ Size(analytics) > resp.req.seen
    /\ \E d \in analytics : "timestamp" \in DOMAIN d /\ d["timestamp"] = StrV(now)

====
